---- MODULE Spec2Model ----
(***************************************************************************)
(* Model of src/deploy-2.py: the metric engine (calculate_all_metrics,     *)
(* calculate_single_dept_metrics) and the detail selector                  *)
(* (get_metric_detail_data) of the ad revenue dashboard.                   *)
(*                                                                         *)
(* Column and metric names of the source are Chinese strings; the model    *)
(* writes them in ASCII:                                                   *)
(*   period = suo-shu-zhang-qi, dept3 = 3-ji-bu-men, country = guo-jia,    *)
(*   ad_type = guang-gao-lei-xing ("core" = tong-ye, "noncore" = yi-ye),   *)
(*   amount = dao-zhang-jin-e_gbp, in pence (2 decimals = integer pence),  *)
(*   biz_attr = ye-wu-shu-xing, sales_id = xiao-shou-ren-gong-hao.         *)
(* A DataFrame is a sequence of rows; a row subset df[mask] is the set of  *)
(* the row labels (indices) the mask keeps, {i \in DOMAIN d : mask(d[i])}, *)
(* which pandas returns in the order of the table.                         *)
(***************************************************************************)
EXTENDS Integers, Sequences, FiniteSets, TLC

VARIABLES df, pc, summary_df, selected_region, selected_metric, detail_df

vars == <<df, pc, summary_df, selected_region, selected_metric, detail_df>>

\* ------------------------------------------------------------ section 1
MaxRows == 2

DEPARTMENTS_COUNTRY == <<"JP", "AU">>
TARGET_PERIOD == 202509
OFF_PERIOD == 202508
TARGET_BUSINESS_ATTR == "waimaiBD"
OTHER_BUSINESS_ATTR == "other"
Range(s) == {s[i] : i \in DOMAIN s}
ALL_DEPARTMENTS == Range(DEPARTMENTS_COUNTRY) \cup {"AD", "OTHER"}
AD_TYPES == {"core", "noncore"}
BUSINESS_TYPES == {TARGET_BUSINESS_ATTR, OTHER_BUSINESS_ATTR}
GLOBAL == "Global"

\* variant: the revenue metrics listed country first, total last
METRIC_ORDER_country_first ==
  << "country_revenue", "country_core_revenue", "country_noncore_revenue",
     "ad_dept_revenue", "ad_dept_core_revenue", "ad_dept_noncore_revenue",
     "total_revenue", "total_core_revenue", "total_noncore_revenue",
     "country_bd_count",
     "ad_dept_bd_count",
     "total_bd_count",
     "global_bd_avg_revenue",
     "ad_dept_bd_avg_revenue",
     "country_bd_avg_revenue" >>

ALL_METRIC_ORDER ==
  << "total_revenue", "total_core_revenue", "total_noncore_revenue",
     "ad_dept_revenue", "ad_dept_core_revenue", "ad_dept_noncore_revenue",
     "country_revenue", "country_core_revenue", "country_noncore_revenue",
     "country_bd_count",
     "ad_dept_bd_count",
     "total_bd_count",
     "global_bd_avg_revenue",
     "ad_dept_bd_avg_revenue",
     "country_bd_avg_revenue" >>

\* sample values of the generated columns
Amounts == {125}
SalesIds == {10000, 10001}

\* ------------------------------------------------ create_simulated_data
\* the country column follows the department
CountryChoices(dept) ==
  IF dept = "AD" THEN Range(DEPARTMENTS_COUNTRY)
  ELSE IF dept \in Range(DEPARTMENTS_COUNTRY) THEN {dept}
  ELSE {"OTHER"}

SimulatedRows ==
  { [period |-> p, dept3 |-> d, country |-> c, ad_type |-> t,
     amount |-> a, biz_attr |-> b, sales_id |-> s] :
    p \in {TARGET_PERIOD, OFF_PERIOD}, d \in ALL_DEPARTMENTS,
    c \in Range(DEPARTMENTS_COUNTRY) \cup {"OTHER"}, t \in AD_TYPES,
    a \in Amounts, b \in BUSINESS_TYPES, s \in SalesIds }

\* The rows the model draws.  The rows of the last listed country, in its
\* own department or in AD, take every ad type, business attribute and
\* salesperson the engine reads; the rows of the other countries have one
\* salesperson, the AD rows (of which no business attribute is read) one
\* business attribute, the OTHER rows (of which no salesperson is read) one
\* salesperson, and the rows outside the period one ad type and salesperson.
Sampled(r) ==
  /\ r.dept3 = "AD" => r.biz_attr = OTHER_BUSINESS_ATTR
  /\ r.dept3 = "OTHER" =>
       r.biz_attr = TARGET_BUSINESS_ATTR /\ r.sales_id = 10000
  /\ (r.dept3 # "OTHER"
      /\ r.country # DEPARTMENTS_COUNTRY[Len(DEPARTMENTS_COUNTRY)]) =>
       r.sales_id = 10001
  /\ r.period = OFF_PERIOD =>
       /\ r.ad_type = "core" /\ r.dept3 # "OTHER"
       /\ r.sales_id = 10001
       /\ r.dept3 # "AD" => r.biz_attr = TARGET_BUSINESS_ATTR

\* rows of the main frame: period 202509 or 202508, country by department
MainRows ==
  {r \in SimulatedRows : r.country \in CountryChoices(r.dept3) /\ Sampled(r)}

\* rows of df_off_period: period 202508, department and country independent
OffPeriodRows ==
  {r \in SimulatedRows :
     /\ r.period = OFF_PERIOD
     /\ r.country \notin CountryChoices(r.dept3)
     /\ r.country = DEPARTMENTS_COUNTRY[1]
     /\ Sampled(r)}

\* ------------------------------------------------------- pandas helpers
RECURSIVE SumAmount(_, _)
\* df[mask]['amount'].sum().round(2), in pence
SumAmount(d, S) ==
  IF S = {} THEN 0
  ELSE LET i == CHOOSE x \in S : TRUE
       IN d[i].amount + SumAmount(d, S \ {i})

\* df[mask]['sales_id'].nunique()
nunique(d, S) == Cardinality({d[i].sales_id : i \in S})

\* (x / n).round(2) in pence: numpy rounds half to even
RoundDiv(x, n) ==
  LET q == x \div n
      r == x % n
  IN IF 2 * r < n THEN q
     ELSE IF 2 * r > n THEN q + 1
     ELSE IF q % 2 = 0 THEN q ELSE q + 1

\* dict.update and dict.get
DictUpdate(f, g) ==
  [k \in DOMAIN f \cup DOMAIN g |-> IF k \in DOMAIN g THEN g[k] ELSE f[k]]
DictGet(f, k, default) == IF k \in DOMAIN f THEN f[k] ELSE default

\* --------------------------------------------------------- section 2
\* the period filter of the global metrics
target_period_condition(r, tp) == r.period = tp

dept_condition(r, dept_code, tp) == r.period = tp /\ r.dept3 = dept_code

dept_count_condition(r, dept_code, tp, tb) ==
  dept_condition(r, dept_code, tp) /\ r.biz_attr = tb

ad_bd_condition(r, dept_code, tp) ==
  r.period = tp /\ r.dept3 = "AD" /\ r.country = dept_code

\* variant: the quotient falls back to the revenue, not to 0
bd_avg_revenue_unguarded(revenue, count) ==
  IF count > 0 THEN RoundDiv(revenue, count) ELSE revenue

\* x / n if n > 0 else 0, then .round(2) if x else 0
bd_avg_revenue(revenue, count) ==
  IF count > 0 THEN RoundDiv(revenue, count) ELSE 0

\* variant: the AD headcount is left out of the total
total_bd_count_country_only(count, ad_bd_count) == count

total_bd_count(count, ad_bd_count) == count + ad_bd_count

\* the key f'{dept_code}_{name}' is the pair <<dept_code, name>>;
\* a global key is <<name>>
DeptKey(dept_code, name) == <<dept_code, name>>
GlobalKey(name) == <<name>>

calculate_single_dept_metrics(dept_code, d, tp, tb) ==
  LET cond == {i \in DOMAIN d : dept_condition(d[i], dept_code, tp)}
      dept_revenue_total == SumAmount(d, cond)
      dept_core_revenue ==
        SumAmount(d, {i \in cond : d[i].ad_type = "core"})
      dept_noncore_revenue ==
        SumAmount(d, {i \in cond : d[i].ad_type = "noncore"})
      dept_aggregated_revenue == dept_revenue_total * 2
      dept_count ==
        nunique(d, {i \in DOMAIN d :
                     dept_count_condition(d[i], dept_code, tp, tb)})
      dept_ad_bd_count ==
        nunique(d, {i \in DOMAIN d : ad_bd_condition(d[i], dept_code, tp)})
      dept_total_bd_count == total_bd_count(dept_count, dept_ad_bd_count)
      metrics ==
        [ ad_dept_revenue |-> dept_revenue_total,
          ad_dept_core_revenue |-> dept_core_revenue,
          ad_dept_noncore_revenue |-> dept_noncore_revenue,
          country_revenue |-> dept_revenue_total,
          country_core_revenue |-> dept_core_revenue,
          country_noncore_revenue |-> dept_noncore_revenue,
          total_revenue |-> dept_aggregated_revenue,
          total_core_revenue |-> dept_core_revenue * 2,
          total_noncore_revenue |-> dept_noncore_revenue * 2,
          country_bd_count |-> dept_count,
          ad_dept_bd_count |-> dept_ad_bd_count,
          total_bd_count |-> dept_total_bd_count,
          global_bd_avg_revenue |->
            bd_avg_revenue(dept_aggregated_revenue, dept_total_bd_count),
          ad_dept_bd_avg_revenue |->
            bd_avg_revenue(dept_revenue_total, dept_ad_bd_count),
          country_bd_avg_revenue |->
            bd_avg_revenue(dept_revenue_total, dept_count) ]
  IN [k \in {DeptKey(dept_code, n) : n \in DOMAIN metrics} |-> metrics[k[2]]]

\* the 15 global metrics of calculate_all_metrics, keyed by GlobalKey
global_values(d, tp, tb, DEPARTMENTS) ==
  LET non_ad == {i \in DOMAIN d :
                  target_period_condition(d[i], tp) /\ d[i].dept3 # "AD"}
      country_total == SumAmount(d, non_ad)
      core_total == SumAmount(d, {i \in non_ad : d[i].ad_type = "core"})
      noncore_total == SumAmount(d, {i \in non_ad : d[i].ad_type = "noncore"})
      country_bd ==
        nunique(d, {i \in DOMAIN d : /\ target_period_condition(d[i], tp)
                                      /\ d[i].dept3 \in Range(DEPARTMENTS)
                                      /\ d[i].biz_attr = tb})
      ad == {i \in DOMAIN d :
              target_period_condition(d[i], tp) /\ d[i].dept3 = "AD"}
      ad_total == SumAmount(d, ad)
      ad_core == SumAmount(d, {i \in ad : d[i].ad_type = "core"})
      ad_noncore == SumAmount(d, {i \in ad : d[i].ad_type = "noncore"})
      ad_bd == nunique(d, ad)
      revenue_total == ad_total + country_total
      revenue_core == ad_core + core_total
      revenue_noncore == ad_noncore + noncore_total
      global_bd == total_bd_count(country_bd, ad_bd)
      metrics ==
        [ total_revenue |-> revenue_total,
          total_core_revenue |-> revenue_core,
          total_noncore_revenue |-> revenue_noncore,
          ad_dept_revenue |-> ad_total,
          ad_dept_core_revenue |-> ad_core,
          ad_dept_noncore_revenue |-> ad_noncore,
          country_revenue |-> country_total,
          country_core_revenue |-> core_total,
          country_noncore_revenue |-> noncore_total,
          country_bd_count |-> country_bd,
          ad_dept_bd_count |-> ad_bd,
          total_bd_count |-> global_bd,
          global_bd_avg_revenue |-> bd_avg_revenue(revenue_total, global_bd),
          ad_dept_bd_avg_revenue |-> bd_avg_revenue(ad_total, ad_bd),
          country_bd_avg_revenue |-> bd_avg_revenue(country_total, country_bd) ]
  IN [k \in {GlobalKey(n) : n \in DOMAIN metrics} |-> metrics[k[1]]]

RECURSIVE all_dept_values(_, _, _, _)
\* for dept in DEPARTMENTS: all_dept_values.update(...)
all_dept_values(DEPARTMENTS, d, tp, tb) ==
  IF DEPARTMENTS = <<>> THEN <<>>
  ELSE LET n == Len(DEPARTMENTS)
       IN DictUpdate(all_dept_values(SubSeq(DEPARTMENTS, 1, n - 1), d, tp, tb),
                     calculate_single_dept_metrics(DEPARTMENTS[n], d, tp, tb))

global_new_metrics ==
  << "ad_dept_bd_count", "total_bd_count", "global_bd_avg_revenue",
     "ad_dept_bd_avg_revenue", "country_bd_avg_revenue" >>

RECURSIVE dept_orders(_, _)
dept_orders(DEPARTMENTS, original_order) ==
  IF DEPARTMENTS = <<>> THEN <<>>
  ELSE LET dept == Head(DEPARTMENTS)
           dept_order ==
             [j \in DOMAIN original_order |-> DeptKey(dept, original_order[j])]
             \o [j \in DOMAIN global_new_metrics |->
                   DeptKey(dept, global_new_metrics[j])]
       IN dept_order \o dept_orders(Tail(DEPARTMENTS), original_order)

final_order(DEPARTMENTS, original_order) ==
  [j \in DOMAIN original_order |-> GlobalKey(original_order[j])]
  \o [j \in DOMAIN global_new_metrics |-> GlobalKey(global_new_metrics[j])]
  \o dept_orders(DEPARTMENTS, original_order)

\* startswith(f'{dept_code}_') for the first dept_code of the list that fits
map_region(key, DEPARTMENTS) ==
  IF Len(key) = 2 /\ \E j \in DOMAIN DEPARTMENTS : DEPARTMENTS[j] = key[1]
  THEN DEPARTMENTS[CHOOSE j \in DOMAIN DEPARTMENTS :
                     /\ DEPARTMENTS[j] = key[1]
                     /\ \A h \in 1..(j - 1) : DEPARTMENTS[h] # key[1]]
  ELSE GLOBAL

\* replace(f"{region}_", "") outside the global block
clean_metric_name(key, region) ==
  IF region # GLOBAL /\ Len(key) = 2 /\ key[1] = region THEN key[2]
  ELSE key[Len(key)]

calculate_all_metrics(d, tp, tb, DEPARTMENTS, original_order) ==
  LET data_values ==
        DictUpdate(global_values(d, tp, tb, DEPARTMENTS),
                   all_dept_values(DEPARTMENTS, d, tp, tb))
      order == final_order(DEPARTMENTS, original_order)
  IN [j \in DOMAIN order |->
        LET region == map_region(order[j], DEPARTMENTS)
        IN [region |-> region,
            metric_name |-> clean_metric_name(order[j], region),
            value |-> DictGet(data_values, order[j], 0)]]

\* --------------------------------------------------------- section 3
\* the metric names holding the substring tong-ye-shou-ru / yi-ye-shou-ru
CoreNames == {"total_core_revenue", "ad_dept_core_revenue", "country_core_revenue"}
NoncoreNames ==
  {"total_noncore_revenue", "ad_dept_noncore_revenue", "country_noncore_revenue"}

\* variant: the period filter keeps the earlier periods too
base_condition_upto(r, target_period) == r.period <= target_period

base_condition(r, target_period) == r.period = target_period

\* variant: the noncore branch is missing
revenue_filter_core_only(d, condition, metric_name) ==
  IF metric_name \in CoreNames
  THEN {i \in condition : d[i].ad_type = "core"}
  ELSE condition

revenue_filter(d, condition, metric_name) ==
  IF metric_name \in CoreNames
  THEN {i \in condition : d[i].ad_type = "core"}
  ELSE IF metric_name \in NoncoreNames
  THEN {i \in condition : d[i].ad_type = "noncore"}
  ELSE condition

Revenue9 == {ALL_METRIC_ORDER[j] : j \in 1..9}
AvgNames ==
  {"global_bd_avg_revenue", "ad_dept_bd_avg_revenue", "country_bd_avg_revenue"}

\* the branch region == Global
global_detail(d, metric_name, target_period, target_biz_attr) ==
  LET base == {i \in DOMAIN d : base_condition(d[i], target_period)}
      ad_cond == {i \in base : d[i].dept3 = "AD"}
      non_ad_cond == {i \in base : d[i].dept3 # "AD"}
      country_bd_condition ==
        {i \in base : /\ d[i].dept3 \in Range(DEPARTMENTS_COUNTRY)
                      /\ d[i].biz_attr = target_biz_attr}
  IN CASE metric_name \in
            {"total_revenue", "total_core_revenue", "total_noncore_revenue"}
            -> revenue_filter(d, base, metric_name)
       [] metric_name \in
            {"ad_dept_revenue", "ad_dept_core_revenue", "ad_dept_noncore_revenue"}
            -> revenue_filter(d, ad_cond, metric_name)
       [] metric_name \in
            {"country_revenue", "country_core_revenue", "country_noncore_revenue"}
            -> revenue_filter(d, non_ad_cond, metric_name)
       [] metric_name = "ad_dept_bd_count" -> ad_cond
       [] metric_name = "country_bd_count" -> country_bd_condition
       [] metric_name = "total_bd_count" -> ad_cond \cup country_bd_condition
       [] metric_name \in AvgNames -> base
       [] OTHER -> {}

\* the country_bd_condition of the region branch of total_bd_count
region_total_bd_country_condition(r, region, target_period, target_biz_attr) ==
  base_condition(r, target_period) /\ r.dept3 = region

\* the else branch: any region other than Global
region_detail(d, metric_name, region, target_period, target_biz_attr) ==
  LET base == {i \in DOMAIN d : base_condition(d[i], target_period)}
      dept_cond == {i \in base : d[i].dept3 = region}
      ad_bd_cond == {i \in base : d[i].dept3 = "AD" /\ d[i].country = region}
      country_bd_cond ==
        {i \in DOMAIN d : region_total_bd_country_condition(
                             d[i], region, target_period, target_biz_attr)}
  IN CASE metric_name \in Revenue9 -> revenue_filter(d, dept_cond, metric_name)
       [] metric_name = "country_bd_count" ->
            {i \in dept_cond : d[i].biz_attr = target_biz_attr}
       [] metric_name = "ad_dept_bd_count" -> ad_bd_cond
       [] metric_name = "total_bd_count" -> ad_bd_cond \cup country_bd_cond
       [] metric_name \in AvgNames -> dept_cond
       [] OTHER -> {}

get_metric_detail_data(d, metric_name, region, target_period, target_biz_attr) ==
  IF region = GLOBAL
  THEN global_detail(d, metric_name, target_period, target_biz_attr)
  ELSE region_detail(d, metric_name, region, target_period, target_biz_attr)

\* --------------------------------------------------------- section 4, 5
ALL_REGIONS == {GLOBAL} \cup Range(DEPARTMENTS_COUNTRY)
MetricNames == Range(ALL_METRIC_ORDER)
\* the arguments get_metric_detail_data is applied to: the options of the two
\* select boxes, and names outside them
RegionInputs == ALL_REGIONS \cup {"AD", "OTHER"}
MetricInputs == MetricNames \cup {"unknown_metric"}

NoSummary == <<>>
NoDetail == {}

Init ==
  /\ df = <<>>
  /\ pc = "load"
  /\ summary_df = NoSummary
  /\ selected_region = GLOBAL
  /\ selected_metric = ALL_METRIC_ORDER[1]
  /\ detail_df = NoDetail

\* create_simulated_data: one row of the main frame
AppendRow ==
  /\ pc = "load"
  /\ Len(df) < MaxRows
  /\ \E r \in MainRows : df' = Append(df, r)
  /\ UNCHANGED <<pc, summary_df, selected_region, selected_metric, detail_df>>

\* create_simulated_data: pd.concat([df, df_off_period])
ConcatOffPeriod ==
  /\ pc = "load"
  /\ Len(df) < MaxRows
  /\ \E r \in OffPeriodRows : df' = Append(df, r)
  /\ UNCHANGED <<pc, summary_df, selected_region, selected_metric, detail_df>>

\* create_and_process_data: the summary of the loaded frame
Process ==
  /\ pc = "load"
  /\ summary_df' = calculate_all_metrics(df, TARGET_PERIOD, TARGET_BUSINESS_ATTR,
                                         DEPARTMENTS_COUNTRY, ALL_METRIC_ORDER)
  /\ pc' = "ready"
  /\ UNCHANGED <<df, selected_region, selected_metric, detail_df>>

\* the detail of the selected region and metric
Select ==
  /\ pc = "ready"
  /\ \E region \in RegionInputs, metric \in MetricInputs :
       /\ selected_region' = region
       /\ selected_metric' = metric
       /\ detail_df' = get_metric_detail_data(df, metric, region, TARGET_PERIOD,
                                               TARGET_BUSINESS_ATTR)
  /\ pc' = "selected"
  /\ UNCHANGED <<df, summary_df>>

Next == AppendRow \/ ConcatOffPeriod \/ Process \/ Select

Spec == Init /\ [][Next]_vars

\* ------------------------------------------------------------ claims
\* the positions of the summary that hold (region, metric)
Records(region, metric) ==
  {j \in DOMAIN summary_df :
     summary_df[j].region = region /\ summary_df[j].metric_name = metric}

\* the table without its row i
RemoveAt(d, i) == SubSeq(d, 1, i - 1) \o SubSeq(d, i + 1, Len(d))

InPeriod(S) == {i \in S : df[i].period = TARGET_PERIOD}

TotalNames == {"total_revenue", "total_core_revenue", "total_noncore_revenue"}

\* C1: the summary has (1 + |country_list|) * 15 records and no two of them
\* share (region, metric_name).
C1_Completeness ==
  pc = "ready" =>
    /\ Len(summary_df) = (1 + Len(DEPARTMENTS_COUNTRY)) * 15
    /\ \A i, j \in DOMAIN summary_df :
         (/\ summary_df[i].region = summary_df[j].region
          /\ summary_df[i].metric_name = summary_df[j].metric_name) => i = j

\* C2, as stated: for every region of the summary and each of the 9 revenue
\* metrics, the amounts of the detail rows add up to the summary value.
C2_ReconciliationAsStated ==
  (pc = "selected" /\ selected_region \in ALL_REGIONS
                   /\ selected_metric \in Revenue9) =>
    LET recs == Records(selected_region, selected_metric)
        total == SumAmount(df, detail_df)
    IN /\ recs # {}
       /\ \A j \in recs : summary_df[j].value = total

\* C2, amended: the amounts of the detail rows add up to the summary value
\* for Global and each of the 9 revenue metrics and for a country and each
\* of its 6 ad_dept_* and country_* revenue metrics; for a country and its 3
\* total_* revenue metrics the summary value is twice that sum.
C2_Reconciliation ==
  (pc = "selected" /\ selected_region \in ALL_REGIONS
                   /\ selected_metric \in Revenue9) =>
    LET recs == Records(selected_region, selected_metric)
        total == SumAmount(df, detail_df)
    IN /\ recs # {}
       /\ \A j \in recs :
            summary_df[j].value =
              IF selected_region # GLOBAL /\ selected_metric \in TotalNames
              THEN 2 * total
              ELSE total

C2_Witness ==
  /\ pc = "selected"
  /\ selected_region = "AU"
  /\ selected_metric = "total_noncore_revenue"
  /\ SumAmount(df, detail_df) > 0
  /\ \E i \in DOMAIN df : i \notin detail_df /\ df[i].period = TARGET_PERIOD

\* C3: ad_dept_revenue of a country c is the amount of the in-period rows of
\* department AD attributed to c, ad_dept_revenue of Global that of all
\* in-period AD rows, and country_revenue of c holds no AD row.
C3_AdAttribution ==
  pc = "ready" =>
    /\ \A j \in Records(GLOBAL, "ad_dept_revenue") :
         summary_df[j].value =
           SumAmount(df, InPeriod({i \in DOMAIN df : df[i].dept3 = "AD"}))
    /\ \A c \in Range(DEPARTMENTS_COUNTRY) :
         /\ \A j \in Records(c, "ad_dept_revenue") :
              summary_df[j].value =
                SumAmount(df, InPeriod({i \in DOMAIN df :
                                 df[i].dept3 = "AD" /\ df[i].country = c}))
         /\ \A j \in Records(c, "country_revenue") :
              summary_df[j].value =
                SumAmount(df, InPeriod({i \in DOMAIN df : df[i].dept3 = c}))

\* C4: in every region of the summary, total_bd_count is country_bd_count
\* plus ad_dept_bd_count.
C4_HeadcountAdditivity ==
  pc = "ready" =>
    \A region \in ALL_REGIONS :
      /\ Records(region, "total_bd_count") # {}
      /\ Records(region, "country_bd_count") # {}
      /\ Records(region, "ad_dept_bd_count") # {}
      /\ \A t \in Records(region, "total_bd_count"),
            c \in Records(region, "country_bd_count"),
            a \in Records(region, "ad_dept_bd_count") :
           summary_df[t].value = summary_df[c].value + summary_df[a].value

C4_Witness ==
  /\ pc = "ready"
  /\ \E region \in Range(DEPARTMENTS_COUNTRY) :
       /\ \E c \in Records(region, "country_bd_count") : summary_df[c].value = 1
       /\ \E a \in Records(region, "ad_dept_bd_count") : summary_df[a].value = 1

\* C5: in every region, a productivity metric is 0 when its headcount is 0,
\* whatever the revenue it divides.
ZeroGuarded(region, avg, count) ==
  \A c \in Records(region, count), a \in Records(region, avg) :
    summary_df[c].value = 0 => summary_df[a].value = 0

C5_ZeroGuard ==
  pc = "ready" =>
    \A region \in ALL_REGIONS :
      /\ Records(region, "global_bd_avg_revenue") # {}
      /\ Records(region, "ad_dept_bd_avg_revenue") # {}
      /\ Records(region, "country_bd_avg_revenue") # {}
      /\ ZeroGuarded(region, "global_bd_avg_revenue", "total_bd_count")
      /\ ZeroGuarded(region, "ad_dept_bd_avg_revenue", "ad_dept_bd_count")
      /\ ZeroGuarded(region, "country_bd_avg_revenue", "country_bd_count")

\* a zero headcount under a revenue that is not zero
C5_Witness ==
  /\ pc = "ready"
  /\ \E region \in ALL_REGIONS :
       /\ \E c \in Records(region, "ad_dept_bd_count") : summary_df[c].value = 0
       /\ \E r \in Records(region, "ad_dept_revenue") : summary_df[r].value > 0
       /\ \E t \in Records(region, "total_bd_count") : summary_df[t].value = 0

\* C6: a row outside the target period changes nothing: the summary is the
\* summary of the table without that row, and no detail holds the row.
C6_OffPeriodExclusion ==
  /\ pc = "ready" =>
       \A i \in DOMAIN df :
         df[i].period # TARGET_PERIOD =>
           summary_df = calculate_all_metrics(RemoveAt(df, i), TARGET_PERIOD,
                          TARGET_BUSINESS_ATTR, DEPARTMENTS_COUNTRY,
                          ALL_METRIC_ORDER)
  /\ pc = "selected" => \A i \in detail_df : df[i].period = TARGET_PERIOD

C6_Witness ==
  /\ pc = "selected"
  /\ detail_df # {}
  /\ \E i \in DOMAIN df :
       /\ df[i].period # TARGET_PERIOD
       /\ df[i].dept3 = selected_region
  /\ \E j \in Records(selected_region, selected_metric) : summary_df[j].value > 0

\* C7: the detail is empty when the metric is none of the 15 names or the
\* region is neither Global nor a country of the list.
C7_UnrecognizedEmpty ==
  (pc = "selected" /\ (selected_metric \notin MetricNames
                       \/ selected_region \notin ALL_REGIONS)) =>
    detail_df = {}

\* C8: the detail of total_bd_count is the union of the details of
\* ad_dept_bd_count and country_bd_count of the same region.
C8_TotalBdUnion ==
  (pc = "selected" /\ selected_region \in ALL_REGIONS
                   /\ selected_metric = "total_bd_count") =>
    /\ detail_df =
         get_metric_detail_data(df, "ad_dept_bd_count", selected_region,
                                TARGET_PERIOD, TARGET_BUSINESS_ATTR)
         \cup get_metric_detail_data(df, "country_bd_count", selected_region,
                                     TARGET_PERIOD, TARGET_BUSINESS_ATTR)
    /\ \A i \in detail_df :
         df[i].dept3 # "AD" => df[i].biz_attr = TARGET_BUSINESS_ATTR

\* the regions in the order of their blocks
RegionOrder == <<GLOBAL>> \o DEPARTMENTS_COUNTRY

\* the records of a region, in the order of the summary
Block(region) == SelectSeq(summary_df, LAMBDA rec : rec.region = region)

\* the place of a region in RegionOrder
Place(region) == CHOOSE a \in DOMAIN RegionOrder : RegionOrder[a] = region

\* the blocks are contiguous and come in the order of RegionOrder: from one
\* record to the next the region stays or moves on in RegionOrder
BlocksInOrder ==
  /\ \A j \in DOMAIN summary_df : summary_df[j].region \in Range(RegionOrder)
  /\ \A j \in 1..(Len(summary_df) - 1) :
       Place(summary_df[j].region) <= Place(summary_df[j + 1].region)

StartsWith(block, order) ==
  /\ Len(block) >= Len(order)
  /\ \A j \in DOMAIN order : block[j].metric_name = order[j]

\* C9, as stated: Global first, then the countries in the order of the list;
\* every block starts with country_*, ad_dept_*, total_* revenue, then the
\* headcounts, then the productivity metrics.
C9_OutputOrderAsStated ==
  pc = "ready" =>
    /\ BlocksInOrder
    /\ \A region \in Range(RegionOrder) :
         StartsWith(Block(region),
           << "country_revenue", "country_core_revenue", "country_noncore_revenue",
              "ad_dept_revenue", "ad_dept_core_revenue", "ad_dept_noncore_revenue",
              "total_revenue", "total_core_revenue", "total_noncore_revenue",
              "country_bd_count", "ad_dept_bd_count", "total_bd_count",
              "global_bd_avg_revenue", "ad_dept_bd_avg_revenue",
              "country_bd_avg_revenue" >>)

\* C9, amended: Global first, then the countries in the order of the list;
\* every block starts with total_*, ad_dept_*, country_* revenue, then the
\* headcounts, then the productivity metrics.
C9_OutputOrder ==
  pc = "ready" =>
    /\ BlocksInOrder
    /\ \A region \in Range(RegionOrder) :
         StartsWith(Block(region),
           << "total_revenue", "total_core_revenue", "total_noncore_revenue",
              "ad_dept_revenue", "ad_dept_core_revenue", "ad_dept_noncore_revenue",
              "country_revenue", "country_core_revenue", "country_noncore_revenue",
              "country_bd_count", "ad_dept_bd_count", "total_bd_count",
              "global_bd_avg_revenue", "ad_dept_bd_avg_revenue",
              "country_bd_avg_revenue" >>)

C9_Witness ==
  /\ pc = "ready"
  /\ Len(df) = MaxRows
  /\ \A region \in Range(RegionOrder) : Len(Block(region)) >= 15
  /\ \E j \in DOMAIN summary_df :
       summary_df[j].region = DEPARTMENTS_COUNTRY[2] /\ summary_df[j].value > 0

\* C10: total_bd_count of the summary is the number of distinct salespersons
\* of the detail of total_bd_count.
C10_HeadcountConsistency ==
  (pc = "selected" /\ selected_region \in ALL_REGIONS
                   /\ selected_metric = "total_bd_count") =>
    \A j \in Records(selected_region, "total_bd_count") :
      summary_df[j].value = nunique(df, detail_df)

====
